---- MODULE Spec2Model ----
(***************************************************************************)
(* Hybrid retrieval and ranking pipeline of arxiv-rag:                     *)
(*   RetrievalPipeline.retrieve -> HybridSearchEngine.search               *)
(*     -> EmbeddingGenerator.embed_text                                    *)
(*     -> OpenSearchClient.hybrid_search (BM25 query, kNN query, RRF)      *)
(*   -> ReRanker.rerank -> ContextBuilder.build                            *)
(*                                                                         *)
(* Fragments are identified by integers.  A backend hit is its "_id"; the  *)
(* "_source" payload of a hit is the stored fragment, store[id].           *)
(* RRF scores are Python floats in the source; here they are exact         *)
(* rationals <<numerator, denominator>>.  On every input enumerated below  *)
(* binary64 arithmetic orders the fused scores exactly as the rationals do *)
(* (ties included), so sorted() sees the same keys.                        *)
(***************************************************************************)
EXTENDS Integers, Sequences, FiniteSets, TLC

VARIABLES
    pc,             \* position of the invocation in the call chain
    caller,         \* the entry point called: "retrieve", "direct" (hybrid_search),
                    \* "build" or "embed_text"
    args,           \* arguments of the entry call
    backend,        \* what the search backend answers to each query
    provider,       \* whether the embedding provider answers
    model,          \* what the cross-encoder answers
    top_k,          \* top_k as seen by hybrid_search
    query_embedding,\* result of embed_text
    filters,        \* filters argument handed to hybrid_search
    filter_clauses, \* hybrid_search local
    requests,       \* request bodies sent to the backend, in order
    bm25_hits,      \* hybrid_search local
    knn_hits,       \* hybrid_search local
    rank,           \* hybrid_search local: loop index of the RRF loops
    scores,         \* hybrid_search local: fused score dict
    ranked_all,     \* sorted(scores, ...) before the [:top_k] slice
    results,        \* list returned by hybrid_search
    reranked,       \* list returned by ReRanker.rerank
    output,         \* value returned by retrieve
    calls,          \* number of calls made to each external collaborator
    store,          \* the indexed fragments: _source of every fragment id
    top_n,          \* ReRanker.top_n
    context_budget, \* ContextBuilder.max_context_tokens
    other           \* locals of a second, suspended invocation, if there is one

vars == <<pc, caller, args, backend, provider, model, top_k, query_embedding,
          filters, filter_clauses, requests, bm25_hits, knn_hits, rank,
          scores, ranked_all, results, reranked, output, calls, store, top_n,
          context_budget, other>>

\* set at construction or indexing time, read-only to an invocation
config == <<store, top_n, context_budget>>

-----------------------------------------------------------------------------
(* Bounds *)

NumFrags == 3       \* fragments in the exhaustively enumerated index
MaxTopK == 3        \* largest top_k of the exhaustively enumerated calls
BigTopK == 63       \* largest top_k of the long structured hit lists
BigSingles == 1     \* most single-list hits heading a long structured list
PipeFrags == 2      \* fragments in the index of the retrieve invocations
PipeTopK == 2       \* largest explicit top_k of the retrieve invocations
MaxDays == 1        \* largest date_filter_days
Now == 5            \* datetime.now(), as a day number
MaxCands == 10      \* most candidates handed to rerank or build
MaxText == 4        \* longest text handed to embed_text directly

(* Program constants *)

rrf_k == 60
TOP_K_RETRIEVAL == 10
TOP_K_RERANK == 5
max_context_tokens == 3000
OPENSEARCH_EMBEDDING_DIM == 768

Min(a, b) == IF a < b THEN a ELSE b

Range(s) == {s[i] : i \in 1..Len(s)}

-----------------------------------------------------------------------------
(* Rational arithmetic for the RRF scores *)

RatAdd(a, b) == <<a[1] * b[2] + b[1] * a[2], a[2] * b[2]>>
RatLt(a, b) == a[1] * b[2] < b[1] * a[2]
RatEq(a, b) == a[1] * b[2] = b[1] * a[2]
RatZero == <<0, 1>>

-----------------------------------------------------------------------------
(* Python dict: keys in insertion order, plus the mapping *)

EmptyDict == [keys |-> <<>>, val |-> <<>>]

DictHas(d, k) == k \in Range(d.keys)

\* d.get(k, default)
DictGet(d, k, default) == IF DictHas(d, k) THEN d.val[k] ELSE default

\* mutation: every assignment adds a new entry, a key already present included
DictSetNoMerge(d, k, v) ==
    [keys |-> Append(d.keys, k), val |-> (k :> v) @@ d.val]

\* d[k] = v
DictSet(d, k, v) ==
    IF DictHas(d, k)
    THEN [d EXCEPT !.val[k] = v]
    ELSE [keys |-> Append(d.keys, k), val |-> (k :> v) @@ d.val]

-----------------------------------------------------------------------------
(* Reciprocal rank fusion, opensearch_client.py:194-224 *)

\* mutation: 1.0 / (rrf_k + rank), the + 1 forgotten
ContributionNoPlusOne(r) == <<1, rrf_k + r>>

\* 1.0 / (rrf_k + rank + 1), r the 0-based rank
Contribution(r) == <<1, rrf_k + r + 1>>

\* mutation: the contribution overwrites the score instead of adding to it
RrfStepOverwrite(d, doc_id, r) == DictSet(d, doc_id, Contribution(r))

\* body of "for rank, hit in enumerate(hits)":
\* scores[doc_id] = scores.get(doc_id, 0.0) + 1.0 / (rrf_k + rank + 1)
RrfStep(d, doc_id, r) ==
    DictSet(d, doc_id, RatAdd(DictGet(d, doc_id, RatZero), Contribution(r)))

\* list.sort / sorted with reverse=True over items 1..n: a stable sort, so items
\* with equal keys keep their original order.  gt holds the pairs <<j, i>> with
\* key of j > key of i.  The result lists the original indices in sorted order.
StableDescPerm(n, gt) ==
    LET pos == [i \in 1..n |->
                  Cardinality({j \in 1..n : \/ <<j, i>> \in gt
                                            \/ <<i, j>> \notin gt /\ j < i})]
    IN  [p \in 1..n |-> CHOOSE i \in 1..n : pos[i] = p - 1]

\* mutation: sorted(...)[::-1], ascending sort then reversed, so equal scores
\* come out last-seen first
SortedByScoreReversed(d) ==
    LET n == Len(d.keys)
        gt == {q \in (1..n) \X (1..n) :
                  \/ RatLt(d.val[d.keys[q[2]]], d.val[d.keys[q[1]]])
                  \/ RatEq(d.val[d.keys[q[2]]], d.val[d.keys[q[1]]]) /\ q[1] > q[2]}
        perm == StableDescPerm(n, gt)
    IN  [p \in 1..Len(d.keys) |-> d.keys[perm[p]]]

\* mutation: reverse=True forgotten, ascending order
SortedByScoreAsc(d) ==
    LET n == Len(d.keys)
        gt == {q \in (1..n) \X (1..n) : RatLt(d.val[d.keys[q[1]]], d.val[d.keys[q[2]]])}
        perm == StableDescPerm(n, gt)
    IN  [p \in 1..Len(d.keys) |-> d.keys[perm[p]]]

\* sorted(scores, key=lambda d: scores[d], reverse=True)
SortedByScoreDesc(d) ==
    LET n == Len(d.keys)
        gt == {q \in (1..n) \X (1..n) : RatLt(d.val[d.keys[q[2]]], d.val[d.keys[q[1]]])}
        perm == StableDescPerm(n, gt)
    IN  [p \in 1..Len(d.keys) |-> d.keys[perm[p]]]

\* mutation: seq[:k - 1]
SliceShort(seq, k) == SubSeq(seq, 1, Min(k - 1, Len(seq)))

\* seq[:k] for k >= 0
Slice(seq, k) == SubSeq(seq, 1, Min(k, Len(seq)))

\* the result dicts: chunk_id, score and the hit's _source fields
ResultList(ids, d) == [p \in 1..Len(ids) |-> [chunk_id |-> ids[p], score |-> d.val[ids[p]]]]

-----------------------------------------------------------------------------
(* Optional values: None is <<>>, a present value x is <<x>> *)

NoneV == <<>>
Some(x) == <<x>>
IsNone(o) == o = <<>>
Val(o) == o[1]

\* Python truthiness of an optional int / optional list
TruthyInt(o) == ~IsNone(o) /\ Val(o) # 0
TruthyList(o) == ~IsNone(o) /\ Val(o) # <<>>

-----------------------------------------------------------------------------
(* Stored fragments: the _source of a hit.  content and title are kept as   *)
(* their numbers of whitespace-separated tokens; a content of -1 is a       *)
(* _source without a "content" key.                                         *)

Fragment(content, title) == [content |-> content, title |-> title]

\* "content" in chunk
HasContent(id) == store[id].content >= 0

\* len(chunk["content"].split())
ContentTokens(id) == store[id].content

\* tokens of the block header "[Source i] (Paper: t | arXiv: a | Section: s)":
\* "[Source", "i]", "(Paper:", the title, "|", "arXiv:", the arXiv id, "|",
\* "Section:" and the section label closed by ")"
HeaderTokens(id) == 7 + store[id].title + 1 + 1

-----------------------------------------------------------------------------
(* HybridSearchEngine.search: filters, hybrid_search.py:31-45 *)

EmptyFilters == [categories |-> NoneV, date_from |-> NoneV]

BuildFilters(categories, date_filter_days) ==
    LET f == [categories |-> IF TruthyList(categories) THEN categories ELSE NoneV,
              date_from  |-> IF TruthyInt(date_filter_days)
                             THEN Some(Now - Val(date_filter_days)) ELSE NoneV]
    IN  \* filters if filters else None
        IF f = EmptyFilters THEN NoneV ELSE Some(f)

(* OpenSearchClient.hybrid_search: filter clauses, opensearch_client.py:143-148 *)

TermsClause(cats) ==
    [clause |-> "terms", field |-> "categories", op |-> "any_of", value |-> cats]
\* mutation: exclusive boundary
RangeClauseExclusive(date_from) ==
    [clause |-> "range", field |-> "published_date", op |-> "gt", value |-> <<date_from>>]
RangeClause(date_from) ==
    [clause |-> "range", field |-> "published_date", op |-> "gte", value |-> <<date_from>>]

FilterClauses(f) ==
    IF IsNone(f) \/ f = Some(EmptyFilters) THEN <<>>
    ELSE (IF ~IsNone(Val(f).categories)
          THEN <<TermsClause(Val(Val(f).categories))>> ELSE <<>>)
         \o
         (IF ~IsNone(Val(f).date_from)
          THEN <<RangeClause(Val(Val(f).date_from))>> ELSE <<>>)

\* bm25_body, opensearch_client.py:151-159
Bm25Body(k, clauses) ==
    [query |-> "bm25", size |-> k, filtered |-> TRUE, filter |-> clauses]

\* mutation: the kNN query never carries the filter
KnnBodyUnfiltered(k, clauses) ==
    [query |-> "knn", size |-> k, filtered |-> FALSE, filter |-> <<>>]

\* knn_body, opensearch_client.py:164-190
KnnBody(k, clauses) ==
    IF clauses # <<>>
    THEN [query |-> "knn", size |-> k, filtered |-> TRUE, filter |-> clauses]
    ELSE [query |-> "knn", size |-> k, filtered |-> FALSE, filter |-> <<>>]

-----------------------------------------------------------------------------
(* ReRanker.rerank, reranker.py:33-51 *)

\* mutation: the guard never fires, an empty list goes on to the model
NoCandidatesNever(cands) == FALSE

\* "if not search_results", reranker.py:33
NoCandidates(cands) == cands = <<>>

\* r["content"] raises KeyError for some candidate, reranker.py:37
MissingContent(cands) == \E i \in 1..Len(cands) : ~HasContent(cands[i].chunk_id)

\* mutation: the scores are attached but the list is not sorted
RerankListUnsorted(cands, score, n_top) ==
    Slice([i \in 1..Len(cands) |->
              [chunk_id |-> cands[i].chunk_id, score |-> cands[i].score,
               rerank_score |-> score[cands[i].chunk_id]]], n_top)

\* mutation: every candidate is paired with the query twice
PairsTwice(cands) ==
    [i \in 1..(2 * Len(cands)) |-> cands[((i - 1) % Len(cands)) + 1].chunk_id]

\* pairs = [(query, r["content"]) for r in search_results], each pair named
\* by the candidate whose content it holds
Pairs(cands) == [i \in 1..Len(cands) |-> cands[i].chunk_id]

\* mutation: result["rerank_score"] = float(score), set on the caller's dicts
SearchResultsAfterInPlace(cands, score) ==
    [i \in 1..Len(cands) |->
        [chunk_id |-> cands[i].chunk_id, score |-> cands[i].score,
         rerank_score |-> score[cands[i].chunk_id]]]

\* the caller's search_results once rerank has returned: {**result, ...}
\* builds new dicts and sort() works on the new list, so they are as before
SearchResultsAfter(cands, score) == cands

\* rerank_score of every candidate, sorted descending, cut to n
RerankList(cands, score, n_top) ==
    LET scored == [i \in 1..Len(cands) |->
                     [chunk_id |-> cands[i].chunk_id, score |-> cands[i].score,
                      rerank_score |-> score[cands[i].chunk_id]]]
        n == Len(cands)
        gt == {q \in (1..n) \X (1..n) : scored[q[1]].rerank_score > scored[q[2]].rerank_score}
        perm == StableDescPerm(n, gt)
    IN  Slice([p \in 1..Len(cands) |-> scored[perm[p]]], n_top)

-----------------------------------------------------------------------------
(* ContextBuilder.build, context_builder.py:24-62 *)

\* round(x, 4) of a non-negative rational, in ten-thousandths
Round4(r) == (2 * 10000 * r[1] + r[2]) \div (2 * r[2])

\* mutation: a chunk that does not fit is skipped and the loop goes on
RECURSIVE BuildLoopSkip(_, _, _, _)
BuildLoopSkip(chunks, i, total_tokens, budget) ==
    IF i > Len(chunks) THEN <<>>
    ELSE IF ~HasContent(chunks[i].chunk_id) THEN <<0>>
    ELSE IF total_tokens + ContentTokens(chunks[i].chunk_id) > budget
         THEN BuildLoopSkip(chunks, i + 1, total_tokens, budget)
    ELSE <<i>> \o BuildLoopSkip(chunks, i + 1,
                                total_tokens + ContentTokens(chunks[i].chunk_id), budget)

\* mutation: the first chunk is rendered whatever its size
RECURSIVE BuildLoopKeepFirst(_, _, _, _)
BuildLoopKeepFirst(chunks, i, total_tokens, budget) ==
    IF i > Len(chunks) THEN <<>>
    ELSE IF ~HasContent(chunks[i].chunk_id) THEN <<0>>
    ELSE IF i > 1 /\ total_tokens + ContentTokens(chunks[i].chunk_id) > budget THEN <<>>
    ELSE <<i>> \o BuildLoopKeepFirst(chunks, i + 1,
                                     total_tokens + ContentTokens(chunks[i].chunk_id),
                                     budget)

\* mutation: each chunk is compared with the budget on its own
RECURSIVE BuildLoopNoTotal(_, _, _, _)
BuildLoopNoTotal(chunks, i, total_tokens, budget) ==
    IF i > Len(chunks) THEN <<>>
    ELSE IF ~HasContent(chunks[i].chunk_id) THEN <<0>>
    ELSE IF ContentTokens(chunks[i].chunk_id) > budget THEN <<>>
    ELSE <<i>> \o BuildLoopNoTotal(chunks, i + 1, total_tokens, budget)

\* "for i, chunk in enumerate(chunks, 1)" from chunk i on, total_tokens counted
\* so far: the indices i of the chunks rendered, in order.  The loop breaks at
\* the first chunk that does not fit; a final 0 stands for the KeyError of
\* chunk["content"].
RECURSIVE BuildLoop(_, _, _, _)
BuildLoop(chunks, i, total_tokens, budget) ==
    IF i > Len(chunks) THEN <<>>
    ELSE IF ~HasContent(chunks[i].chunk_id) THEN <<0>>
    ELSE IF total_tokens + ContentTokens(chunks[i].chunk_id) > budget THEN <<>>
    ELSE <<i>> \o BuildLoop(chunks, i + 1,
                            total_tokens + ContentTokens(chunks[i].chunk_id), budget)

BuildRaises(chunks, budget) == 0 \in Range(BuildLoop(chunks, 1, 0, budget))

\* context_parts: one rendered block per chunk kept, "[Source i] ..." with the
\* loop index i as marker, then the chunk text
ContextParts(chunks, budget) ==
    LET idx == BuildLoop(chunks, 1, 0, budget)
    IN  [j \in 1..Len(idx) |->
            [marker |-> idx[j], chunk_id |-> chunks[idx[j]].chunk_id,
             header |-> HeaderTokens(chunks[idx[j]].chunk_id),
             tokens |-> ContentTokens(chunks[idx[j]].chunk_id)]]

\* whitespace tokens of "\n\n---\n\n".join(context_parts): header and text of
\* every block, and one "---" between two blocks
RenderedTokens(parts) ==
    LET m == Len(parts)
        upto[j \in 0..m] == IF j = 0 THEN 0
                            ELSE upto[j - 1] + parts[j].header + parts[j].tokens
    IN  IF m = 0 THEN 0 ELSE upto[m] + (m - 1)

\* mutation: the citation is appended before the budget test, so the chunk
\* that breaks the loop is cited as well
SourcesBeforeCheck(chunks, budget) ==
    LET idx == BuildLoop(chunks, 1, 0, budget)
        m == Min(Len(idx) + 1, Len(chunks))
    IN  [j \in 1..m |->
            [chunk_id |-> chunks[j].chunk_id,
             relevance_score |-> Round4(chunks[j].score)]]

\* sources: one citation per chunk kept,
\* relevance_score = round(chunk.get("score", 0.0), 4)
Sources(chunks, budget) ==
    LET idx == BuildLoop(chunks, 1, 0, budget)
    IN  [j \in 1..Len(idx) |->
            [chunk_id |-> chunks[idx[j]].chunk_id,
             relevance_score |-> Round4(chunks[idx[j]].score)]]

-----------------------------------------------------------------------------
(* Inputs *)

\* lists without repeated ids, of length at most n
InjSeqs(S, n) ==
    UNION {{q \in [1..m -> S] : \A i, j \in 1..m : i # j => q[i] # q[j]} : m \in 0..n}

Ok(hits) == [ok |-> TRUE, hits |-> hits]
Failed == [ok |-> FALSE, hits |-> <<>>]

\* long hit lists: p hits found by one query only, then d hits found by both
KwSingles(p) == [i \in 1..p |-> 1000 + i]
VecSingles(p) == [i \in 1..p |-> 2000 + i]
Doubles(d) == [i \in 1..d |-> i]

BigInputs ==
    {[top_k |-> k,
      bm25 |-> Ok(KwSingles(p) \o Doubles(k - p)),
      knn  |-> Ok(VecSingles(p) \o Doubles(k - p))] :
        k \in (rrf_k + 2)..BigTopK, p \in 0..BigSingles}

SmallInputs ==
    UNION {{[top_k |-> k, bm25 |-> Ok(kw), knn |-> Ok(vec)] :
               kw \in InjSeqs(1..NumFrags, k), vec \in InjSeqs(1..NumFrags, k)} :
           k \in 0..MaxTopK}

NoOutput == [status |-> "none", error |-> "", context |-> <<>>, sources |-> <<>>]
NoCalls == [embed |-> 0, bm25 |-> 0, knn |-> 0, model |-> 0]
NoArgs == [query |-> <<>>, top_k |-> NoneV, categories |-> NoneV,
           date_filter_days |-> NoneV]

Locals ==
    /\ provider = "unasked"
    /\ model = NoneV
    /\ query_embedding = NoneV
    /\ filter_clauses = <<>>
    /\ requests = <<>>
    /\ bm25_hits = <<>>
    /\ knn_hits = <<>>
    /\ rank = 0
    /\ scores = EmptyDict
    /\ ranked_all = <<>>
    /\ results = <<>>
    /\ reranked = <<>>
    /\ output = NoOutput
    /\ calls = NoCalls
    /\ other = NoneV

-----------------------------------------------------------------------------
(* retrieve invocations *)

ArgsSet ==
    [query : {<<"q">>},
     top_k : {NoneV} \cup {Some(k) : k \in 0..PipeTopK},
     categories : {NoneV, Some(<<>>), Some(<<"cs.AI">>)},
     date_filter_days : {NoneV} \cup {Some(n) : n \in (0 - 1)..MaxDays}]

\* mutation: top_k if top_k is not None else settings.TOP_K_RETRIEVAL
EffectiveTopKNoneOnly(a) == IF ~IsNone(a.top_k) THEN Val(a.top_k) ELSE TOP_K_RETRIEVAL

\* top_k = top_k or settings.TOP_K_RETRIEVAL, retrieval_pipeline.py:41
EffectiveTopK(a) == IF TruthyInt(a.top_k) THEN Val(a.top_k) ELSE TOP_K_RETRIEVAL

Responses(k) ==
    {Failed} \cup {Ok(h) : h \in InjSeqs(1..PipeFrags, Min(k, PipeTopK))}

\* what RetrievalPipeline.__init__ sets: ReRanker(top_n=settings.TOP_K_RERANK)
\* and ContextBuilder() with its default budget
PipelineConfig ==
    /\ top_n = TOP_K_RERANK
    /\ context_budget = max_context_tokens

Init ==
    /\ pc = "retrieve"
    /\ caller = "retrieve"
    /\ args \in ArgsSet
    /\ backend \in [bm25 : Responses(EffectiveTopK(args)),
                    knn : Responses(EffectiveTopK(args))]
    /\ top_k = 0
    /\ filters = NoneV
    /\ store = [i \in 1..PipeFrags |-> Fragment(1000 + (i % 3) * 500, 2)]
    /\ PipelineConfig
    /\ Locals

\* mutation: search goes straight to the filters, no embedding is made
SearchEntryNoEmbedding == "filters"

\* the first statement of HybridSearchEngine.search: embed the query
SearchEntry == "embed"

\* mutation: self.reranker.top_n = top_k, the pipeline's re-ranker is set
\* up for this invocation
TopNAfterRetrieveSet(n, k) == k

\* self.reranker.top_n once retrieve has started: retrieve assigns to its
\* local top_k only, no field of the pipeline is written
TopNAfterRetrieve(n, k) == n

\* retrieval_pipeline.py:40-49: default top_k, call search_engine.search
Retrieve ==
    /\ pc = "retrieve"
    /\ top_k' = EffectiveTopK(args)
    /\ pc' = SearchEntry
    /\ top_n' = TopNAfterRetrieve(top_n, top_k')
    /\ UNCHANGED <<store, context_budget, other>>
    /\ UNCHANGED <<rank, caller, args, backend, provider, model, query_embedding,
                   filters, filter_clauses, requests, bm25_hits, knn_hits,
                   scores, ranked_all, results, reranked, output, calls>>

\* texts are sequences of characters; these are the ones str.strip() removes
Whitespace == {" ", "\n"}

\* text.strip()
Strip(text) ==
    LET kept == {i \in 1..Len(text) : text[i] \notin Whitespace}
    IN  IF kept = {} THEN <<>>
        ELSE SubSeq(text, CHOOSE i \in kept : \A j \in kept : i <= j,
                          CHOOSE i \in kept : \A j \in kept : i >= j)

\* mutation: only the empty text is caught, "not text"
BlankEmptyOnly(text) == text = <<>>

\* "not text or not text.strip()", embeddings.py:27
Blank(text) == text = <<>> \/ Strip(text) = <<>>

\* [0.0] * self.dimension
ZeroVector == [i \in 1..OPENSEARCH_EMBEDDING_DIM |-> 0]

\* response.json()["embedding"] of a provider that answers
ProviderEmbedding == [i \in 1..OPENSEARCH_EMBEDDING_DIM |-> 1]

\* embeddings.py:21-52, called at hybrid_search.py:29 or directly
EmbedText ==
    /\ pc = "embed"
    /\ IF Blank(args.query)
       THEN /\ query_embedding' = ZeroVector
            /\ UNCHANGED <<provider, calls>>
       ELSE \E answer \in {"ok", "error"} :
            /\ provider' = answer
            /\ calls' = [calls EXCEPT !.embed = @ + 1]
            /\ query_embedding' = IF answer = "ok" THEN ProviderEmbedding
                                                    ELSE ZeroVector
    /\ pc' = IF caller = "embed_text" THEN "done" ELSE "filters"
    /\ UNCHANGED <<config, other>>
    /\ UNCHANGED <<rank, caller, args, backend, model, top_k, filters, filter_clauses,
                   requests, bm25_hits, knn_hits, scores, ranked_all, results,
                   reranked, output>>

\* hybrid_search.py:31-45: build filters, call os_client.hybrid_search
Search ==
    /\ pc = "filters"
    /\ filters' = BuildFilters(args.categories, args.date_filter_days)
    /\ pc' = "hybrid_search"
    /\ UNCHANGED <<config, other>>
    /\ UNCHANGED <<rank, caller, args, backend, provider, model, top_k,
                   query_embedding, filter_clauses, requests, bm25_hits,
                   knn_hits, scores, ranked_all, results, reranked, output,
                   calls>>

\* mutation: the exception is swallowed and an empty result is returned
RaiseSwallowed(what) == [NoOutput EXCEPT !.status = "returned"]

\* an exception leaves every frame up to the caller of the entry point
Raise(what) == [NoOutput EXCEPT !.status = "raised", !.error = what]

\* mutation: a failed query is answered with an empty hit list
SearchAnswerDegraded(resp) == IF resp.ok THEN resp ELSE [ok |-> TRUE, hits |-> <<>>]

\* the answer of client.search as hybrid_search sees it: the hits, or an
\* exception that nothing in hybrid_search catches
SearchAnswer(resp) == resp

\* mutation: a failed query is issued again
OnSearchErrorRetry(at) == at

\* where the invocation is after client.search raised at position at: no
\* except clause, no loop around the call, the invocation is over
OnSearchError(at) == "raised"

\* opensearch_client.py:143-161: filter clauses, BM25 query
Bm25Search ==
    /\ pc = "hybrid_search"
    /\ filter_clauses' = FilterClauses(filters)
    /\ requests' = Append(requests, Bm25Body(top_k, filter_clauses'))
    /\ calls' = [calls EXCEPT !.bm25 = @ + 1]
    /\ IF SearchAnswer(backend.bm25).ok
       THEN /\ bm25_hits' = SearchAnswer(backend.bm25).hits
            /\ pc' = "knn"
            /\ UNCHANGED output
       ELSE /\ pc' = OnSearchError(pc)
            /\ output' = Raise("bm25")
            /\ UNCHANGED bm25_hits
    /\ UNCHANGED <<config, other>>
    /\ UNCHANGED <<rank, caller, args, backend, provider, model, top_k,
                   query_embedding, filters, knn_hits, scores, ranked_all,
                   results, reranked>>

\* opensearch_client.py:163-192: kNN query
KnnSearch ==
    /\ pc = "knn"
    /\ requests' = Append(requests, KnnBody(top_k, filter_clauses))
    /\ calls' = [calls EXCEPT !.knn = @ + 1]
    /\ IF SearchAnswer(backend.knn).ok
       THEN /\ knn_hits' = SearchAnswer(backend.knn).hits
            /\ pc' = "rrf_bm25"
            /\ UNCHANGED output
       ELSE /\ pc' = OnSearchError(pc)
            /\ output' = Raise("knn")
            /\ UNCHANGED knn_hits
    /\ UNCHANGED <<config, other>>
    /\ UNCHANGED <<rank, caller, args, backend, provider, model, top_k,
                   query_embedding, filters, filter_clauses, bm25_hits, scores,
                   ranked_all, results, reranked>>

\* opensearch_client.py:199-202: one iteration of the loop over bm25_hits
RrfBm25 ==
    /\ pc = "rrf_bm25"
    /\ IF rank < Len(bm25_hits)
       THEN /\ scores' = RrfStep(scores, bm25_hits[rank + 1], rank)
            /\ rank' = rank + 1
            /\ pc' = pc
       ELSE /\ rank' = 0
            /\ pc' = "rrf_knn"
            /\ UNCHANGED scores
    /\ UNCHANGED <<config, other>>
    /\ UNCHANGED <<caller, args, backend, provider, model, top_k,
                   query_embedding, filters, filter_clauses, requests,
                   bm25_hits, knn_hits, ranked_all, results, reranked, output,
                   calls>>

\* opensearch_client.py:204-207: one iteration of the loop over knn_hits
RrfKnn ==
    /\ pc = "rrf_knn"
    /\ IF rank < Len(knn_hits)
       THEN /\ scores' = RrfStep(scores, knn_hits[rank + 1], rank)
            /\ rank' = rank + 1
            /\ pc' = pc
       ELSE /\ rank' = 0
            /\ pc' = "rank"
            /\ UNCHANGED scores
    /\ UNCHANGED <<config, other>>
    /\ UNCHANGED <<caller, args, backend, provider, model, top_k,
                   query_embedding, filters, filter_clauses, requests,
                   bm25_hits, knn_hits, ranked_all, results, reranked, output,
                   calls>>

\* opensearch_client.py:209-224: sort by fused score, cut to top_k, return
Rank ==
    /\ pc = "rank"
    /\ ranked_all' = SortedByScoreDesc(scores)
    /\ results' = ResultList(Slice(ranked_all', top_k), scores)
    /\ pc' = IF caller = "retrieve" THEN "rerank" ELSE "done"
    /\ UNCHANGED <<config, other>>
    /\ UNCHANGED <<caller, args, backend, provider, model, top_k,
                   query_embedding, filters, filter_clauses, requests,
                   bm25_hits, knn_hits, rank, scores, reranked, output, calls>>

\* what the cross-encoder may answer for the stored fragments: a score per
\* (query, passage) pair, or an exception
ScoreFns ==
    {[i \in DOMAIN store |-> i], [i \in DOMAIN store |-> 0 - i],
     [i \in DOMAIN store |-> 0], [i \in DOMAIN store |-> (3 * i) % 7]}

ModelAnswers == {[ok |-> TRUE, score |-> f] : f \in ScoreFns}
                    \cup {[ok |-> FALSE, score |-> [i \in DOMAIN store |-> 0]]}

\* reranker.py:22-51, called at retrieval_pipeline.py:52
Rerank ==
    /\ pc = "rerank"
    /\ IF NoCandidates(results)
       THEN /\ reranked' = <<>>
            /\ pc' = "build"
            /\ UNCHANGED <<model, calls, output, results>>
       ELSE IF MissingContent(results)
       THEN /\ pc' = "raised"
            /\ output' = Raise("KeyError")
            /\ UNCHANGED <<model, calls, reranked, results>>
       ELSE \E answer \in ModelAnswers :
            /\ model' = Some([ok |-> answer.ok, score |-> answer.score,
                                pairs |-> Pairs(results)])
            /\ calls' = [calls EXCEPT !.model = @ + 1]
            /\ IF answer.ok
               THEN /\ reranked' = RerankList(results, answer.score, top_n)
                    /\ results' = SearchResultsAfter(results, answer.score)
                    /\ pc' = "build"
                    /\ UNCHANGED output
               ELSE /\ pc' = "raised"
                    /\ output' = Raise("model")
                    /\ UNCHANGED <<reranked, results>>
    /\ UNCHANGED <<config, other>>
    /\ UNCHANGED <<rank, caller, args, backend, provider, top_k, query_embedding,
                   filters, filter_clauses, requests, bm25_hits, knn_hits,
                   scores, ranked_all>>

\* context_builder.py:24-62 and retrieval_pipeline.py:54-63
Build ==
    /\ pc = "build"
    /\ IF BuildRaises(reranked, context_budget)
       THEN /\ pc' = "raised"
            /\ output' = Raise("KeyError")
       ELSE /\ pc' = "done"
            /\ output' = [status |-> "returned", error |-> "",
                          context |-> ContextParts(reranked, context_budget),
                          sources |-> Sources(reranked, context_budget)]
    /\ UNCHANGED <<config, other>>
    /\ UNCHANGED <<rank, caller, args, backend, provider, model, top_k,
                   query_embedding, filters, filter_clauses, requests,
                   bm25_hits, knn_hits, scores, ranked_all, results, reranked,
                   calls>>

Next ==
    \/ Retrieve
    \/ EmbedText
    \/ Search
    \/ Bm25Search
    \/ KnnSearch
    \/ RrfBm25
    \/ RrfKnn
    \/ Rank
    \/ Rerank
    \/ Build

Spec == Init /\ [][Next]_vars

-----------------------------------------------------------------------------
(* direct calls of OpenSearchClient.hybrid_search with given hit lists *)

InitFusion ==
    /\ pc = "hybrid_search"
    /\ caller = "direct"
    /\ args = NoArgs
    /\ \E in \in SmallInputs \cup BigInputs :
        /\ top_k = in.top_k
        /\ backend = [bm25 |-> in.bm25, knn |-> in.knn]
    /\ filters = NoneV
    /\ store = <<>>
    /\ PipelineConfig
    /\ Locals

NextFusion ==
    \/ Bm25Search
    \/ KnnSearch
    \/ RrfBm25
    \/ RrfKnn
    \/ Rank

SpecFusion == InitFusion /\ [][NextFusion]_vars

-----------------------------------------------------------------------------
(* two retrieve invocations on one RetrievalPipeline, run by two threads:  *)
(* the variables above are the locals of the running one, other holds the *)
(* locals of the suspended one; store, top_n and context_budget are fields *)
(* of the shared objects                                                   *)

\* the locals of the running invocation
Frame ==
    [pc |-> pc, caller |-> caller, args |-> args, backend |-> backend,
     provider |-> provider, model |-> model, top_k |-> top_k,
     query_embedding |-> query_embedding, filters |-> filters,
     filter_clauses |-> filter_clauses, requests |-> requests,
     bm25_hits |-> bm25_hits, knn_hits |-> knn_hits, rank |-> rank,
     scores |-> scores, ranked_all |-> ranked_all, results |-> results,
     reranked |-> reranked, output |-> output, calls |-> calls]

\* the locals of an invocation about to start
StartFrame(a, b) ==
    [pc |-> "retrieve", caller |-> "retrieve", args |-> a, backend |-> b,
     provider |-> "unasked", model |-> NoneV, top_k |-> 0,
     query_embedding |-> NoneV, filters |-> NoneV, filter_clauses |-> <<>>,
     requests |-> <<>>, bm25_hits |-> <<>>, knn_hits |-> <<>>, rank |-> 0,
     scores |-> EmptyDict, ranked_all |-> <<>>, results |-> <<>>,
     reranked |-> <<>>, output |-> NoOutput, calls |-> NoCalls]

\* the retrieve calls of the two threads and what the backend answers them
ConcurrentInputs ==
    {[args |-> [NoArgs EXCEPT !.query = <<"q">>, !.top_k = Some(1)],
      backend |-> [bm25 |-> Ok(<<1>>), knn |-> Ok(<<2>>)]],
     [args |-> [NoArgs EXCEPT !.query = <<"q">>, !.top_k = Some(2)],
      backend |-> [bm25 |-> Ok(<<1, 2>>), knn |-> Ok(<<2, 1>>)]],
     [args |-> [NoArgs EXCEPT !.query = <<"q">>, !.top_k = Some(2)],
      backend |-> [bm25 |-> Ok(<<2>>), knn |-> Failed]]}

InitConcurrent ==
    /\ \E in \in ConcurrentInputs :
        /\ pc = "retrieve"
        /\ caller = "retrieve"
        /\ args = in.args
        /\ backend = in.backend
    /\ top_k = 0
    /\ filters = NoneV
    /\ provider = "unasked"
    /\ model = NoneV
    /\ query_embedding = NoneV
    /\ filter_clauses = <<>>
    /\ requests = <<>>
    /\ bm25_hits = <<>>
    /\ knn_hits = <<>>
    /\ rank = 0
    /\ scores = EmptyDict
    /\ ranked_all = <<>>
    /\ results = <<>>
    /\ reranked = <<>>
    /\ output = NoOutput
    /\ calls = NoCalls
    /\ \E in \in ConcurrentInputs : other = Some(StartFrame(in.args, in.backend))
    /\ store = [i \in 1..PipeFrags |-> Fragment(20, 2)]
    /\ PipelineConfig

\* the scheduler suspends the running thread and resumes the other one
Switch ==
    /\ ~IsNone(other)
    /\ Val(other).pc \notin {"done", "raised"}
    /\ other' = Some(Frame)
    /\ pc' = Val(other).pc
    /\ caller' = Val(other).caller
    /\ args' = Val(other).args
    /\ backend' = Val(other).backend
    /\ provider' = Val(other).provider
    /\ model' = Val(other).model
    /\ top_k' = Val(other).top_k
    /\ query_embedding' = Val(other).query_embedding
    /\ filters' = Val(other).filters
    /\ filter_clauses' = Val(other).filter_clauses
    /\ requests' = Val(other).requests
    /\ bm25_hits' = Val(other).bm25_hits
    /\ knn_hits' = Val(other).knn_hits
    /\ rank' = Val(other).rank
    /\ scores' = Val(other).scores
    /\ ranked_all' = Val(other).ranked_all
    /\ results' = Val(other).results
    /\ reranked' = Val(other).reranked
    /\ output' = Val(other).output
    /\ calls' = Val(other).calls
    /\ UNCHANGED config

NextConcurrent ==
    \/ Next
    \/ Switch

SpecConcurrent == InitConcurrent /\ [][NextConcurrent]_vars

-----------------------------------------------------------------------------
(* direct calls of EmbeddingGenerator.embed_text *)

\* the texts of at most n characters over a letter and two kinds of whitespace
Texts(n) == UNION {[1..m -> {"a", " ", "\n"}] : m \in 0..n}

InitEmbed ==
    /\ pc = "embed"
    /\ caller = "embed_text"
    /\ \E text \in Texts(MaxText) : args = [NoArgs EXCEPT !.query = text]
    /\ backend = [bm25 |-> Ok(<<>>), knn |-> Ok(<<>>)]
    /\ top_k = TOP_K_RETRIEVAL
    /\ filters = NoneV
    /\ store = <<>>
    /\ PipelineConfig
    /\ Locals

NextEmbed ==
    \/ EmbedText

SpecEmbed == InitEmbed /\ [][NextEmbed]_vars

-----------------------------------------------------------------------------
(* retrieve resumed where search_engine.search has returned n candidates,  *)
(* retrieval_pipeline.py:51, and direct calls of ContextBuilder.build      *)

\* what hybrid_search returns for n fragments found by one query only:
\* fragment i at rank i - 1
Candidates(n) == [i \in 1..n |-> [chunk_id |-> i, score |-> Contribution(i - 1)]]

\* a reranked list as build receives it: rerank_score attached, descending
Reranked(n) ==
    [i \in 1..n |-> [chunk_id |-> i, score |-> Contribution(i - 1),
                     rerank_score |-> 0 - i]]

\* the stored fragments 1..n: all of 20 tokens; of 20, 40 and 10 tokens in
\* turn; a long first one; the second one without content
Stores(n) ==
    {[i \in 1..n |-> Fragment(20, 2)],
     [i \in 1..n |-> Fragment(IF i % 3 = 1 THEN 20 ELSE IF i % 3 = 2 THEN 40 ELSE 10,
                              1 + (i % 2))],
     [i \in 1..n |-> Fragment(IF i = 1 THEN 60 ELSE 10, 2)],
     [i \in 1..n |-> Fragment(IF i = 2 THEN 0 - 1 ELSE 20, 2)]}

\* ReRanker(top_n=...) and ContextBuilder(max_context_tokens=...)
TopNs == {0, 1, 3, TOP_K_RERANK}
Budgets == {0, 40, 50, max_context_tokens}

InitRerank ==
    /\ \E n \in 0..MaxCands :
        /\ store \in Stores(n)
        /\ \/ /\ pc = "rerank"
              /\ caller = "retrieve"
              /\ results = Candidates(n)
              /\ reranked = <<>>
           \/ /\ pc = "build"
              /\ caller = "build"
              /\ results = <<>>
              /\ reranked = Reranked(n)
        /\ top_k = IF n > TOP_K_RETRIEVAL THEN n ELSE TOP_K_RETRIEVAL
    /\ top_n \in TopNs
    /\ context_budget \in Budgets
    /\ args = NoArgs
    /\ backend = [bm25 |-> Ok(<<>>), knn |-> Ok(<<>>)]
    /\ filters = NoneV
    /\ provider = "unasked"
    /\ model = NoneV
    /\ query_embedding = NoneV
    /\ filter_clauses = <<>>
    /\ requests = <<>>
    /\ bm25_hits = <<>>
    /\ knn_hits = <<>>
    /\ rank = 0
    /\ scores = EmptyDict
    /\ ranked_all = <<>>
    /\ output = NoOutput
    /\ calls = NoCalls
    /\ other = NoneV

NextRerank ==
    \/ Rerank
    \/ Build

SpecRerank == InitRerank /\ [][NextRerank]_vars

-----------------------------------------------------------------------------
(* Properties of OpenSearchClient.hybrid_search, checked under SpecFusion *)

\* hybrid_search has returned to a direct caller
Fused == pc = "done" /\ caller = "direct"

ResultIds == [i \in 1..Len(results) |-> results[i].chunk_id]

Count(seq, x) == Cardinality({i \in 1..Len(seq) : seq[i] = x})

InBoth == Range(bm25_hits) \cap Range(knn_hits)
InEither == Range(bm25_hits) \cup Range(knn_hits)

\* 0-based rank of x in a hit list that contains it
RankIn(hits, x) == (CHOOSE i \in 1..Len(hits) : hits[i] = x) - 1

\* the sum, over the lists that contain x, of 1 / (60 + r + 1)
ExpectedScore(x) ==
    IF x \in InBoth
    THEN RatAdd(<<1, 60 + RankIn(bm25_hits, x) + 1>>, <<1, 60 + RankIn(knn_hits, x) + 1>>)
    ELSE IF x \in Range(bm25_hits) THEN <<1, 60 + RankIn(bm25_hits, x) + 1>>
    ELSE <<1, 60 + RankIn(knn_hits, x) + 1>>

\* C1 as stated: the fused list holds no identifier twice, and every identifier
\* present in both hit lists is in the returned list exactly once.
C1_AsStated ==
    Fused => /\ \A x \in InEither : Count(ResultIds, x) <= 1
             /\ \A x \in InBoth : Count(ResultIds, x) = 1

\* C1 amended: the returned list holds no identifier twice; every identifier
\* present in both hit lists is exactly once in the full fused ranking, and
\* is in the returned list whenever top_k <= rrf_k + 2 = 62.
C1_NoDuplication ==
    Fused => /\ \A x \in InEither : Count(ResultIds, x) <= 1
             /\ \A x \in InBoth :
                  /\ Count(ranked_all, x) = 1
                  /\ top_k <= 62 => Count(ResultIds, x) = 1

C1_Witness ==
    /\ Fused
    /\ top_k = 62
    /\ Len(ranked_all) > top_k
    /\ \E x \in InBoth : RatEq(ExpectedScore(x), <<1, 61>>) /\ Count(ResultIds, x) = 1

\* C2: every fused score is the sum, over the lists containing the fragment,
\* of 1 / (60 + r + 1), r its 0-based rank there; nothing else is added.
C2_FusedScore ==
    Fused => /\ Range(scores.keys) = InEither
             /\ \A x \in InEither : RatEq(scores.val[x], ExpectedScore(x))
             /\ \A i \in 1..Len(results) :
                  RatEq(results[i].score, ExpectedScore(results[i].chunk_id))

C2_Witness ==
    /\ Fused
    /\ \E x \in Range(ResultIds) : x \in InBoth
    /\ \E x \in Range(ResultIds) :
          x \notin Range(bm25_hits) /\ RankIn(knn_hits, x) > 0

\* C3: the returned list is in non-increasing order of fused score, has
\* min(top_k, n) entries of the n distinct fused fragments, and no fragment
\* left out has a strictly higher fused score than one returned.
C3_TopK ==
    Fused =>
        /\ Len(results) = Min(top_k, Cardinality(InEither))
        /\ Range(ResultIds) \subseteq InEither
        /\ \A i, j \in 1..Len(results) :
              i < j => ~RatLt(ExpectedScore(ResultIds[i]), ExpectedScore(ResultIds[j]))
        /\ \A x \in InEither \ Range(ResultIds) : \A y \in Range(ResultIds) :
              ~RatLt(ExpectedScore(y), ExpectedScore(x))
        /\ top_k >= Cardinality(InEither) => Range(ResultIds) = InEither

C3_Witness ==
    /\ Fused
    /\ Cardinality(InEither) > top_k
    /\ Len(results) >= 2
    /\ RatLt(ExpectedScore(ResultIds[2]), ExpectedScore(ResultIds[1]))
    /\ \E x \in InEither \ Range(ResultIds) :
          RatLt(ExpectedScore(x), ExpectedScore(ResultIds[Len(results)]))

\* C5: keyword list [f1, f2], vector list [f2, f3] and top_k >= 3 give the
\* order f2, f1, f3.
C5_ScenarioA ==
    \A f1, f2, f3 \in 1..NumFrags :
        (/\ Fused
         /\ Cardinality({f1, f2, f3}) = 3
         /\ bm25_hits = <<f1, f2>>
         /\ knn_hits = <<f2, f3>>
         /\ top_k >= 3)
        => ResultIds = <<f2, f1, f3>>

C5_Witness ==
    /\ Fused
    /\ bm25_hits = <<1, 2>>
    /\ knn_hits = <<2, 3>>
    /\ top_k = 3
    /\ ResultIds = <<2, 1, 3>>

\* C6: with an empty keyword list the fused output is the vector list in its
\* own order; with both lists empty it is the empty list, and nothing is raised.
C6_EmptyKeywordList ==
    (Fused /\ bm25_hits = <<>>) =>
        /\ ResultIds = knn_hits
        /\ knn_hits = <<>> => results = <<>>
        /\ output.status # "raised"

C6_Witness ==
    /\ Fused
    /\ bm25_hits = <<>>
    /\ Len(knn_hits) = top_k
    /\ Len(knn_hits) >= 2
    /\ ResultIds = knn_hits

C6_WitnessBothEmpty ==
    Fused /\ bm25_hits = <<>> /\ knn_hits = <<>> /\ top_k > 0 /\ results = <<>>

-----------------------------------------------------------------------------
(* Properties of RetrievalPipeline.retrieve, checked under Spec *)

BothSent == Len(requests) = 2

\* C7: the filter predicate sent with the BM25 query is the one sent with the
\* kNN query: same category clause, same date clause, never on one side only.
C7_SamePredicate ==
    /\ \A i, j \in 1..Len(requests) : requests[i].filter = requests[j].filter
    /\ BothSent =>
          /\ requests[1].query = "bm25"
          /\ requests[2].query = "knn"
          /\ requests[2].filtered <=> requests[1].filter # <<>>

C7_Witness ==
    /\ BothSent
    /\ Len(requests[1].filter) = 2
    /\ requests[2].filter = requests[1].filter

CategoriesClauseOf(cats) ==
    [clause |-> "terms", field |-> "categories", op |-> "any_of", value |-> cats]
OnOrAfterClause(day) ==
    [clause |-> "range", field |-> "published_date", op |-> "gte", value |-> <<day>>]

ClausesOn(field) ==
    {c \in UNION {Range(requests[i].filter) : i \in 1..Len(requests)} : c.field = field}

\* C8 as stated: with neither constraint the predicate is empty and both
\* queries run unfiltered; a supplied category list gives one OR-set clause and
\* a supplied number of days N an inclusive "on or after now - N" clause.
C8_AsStated ==
    BothSent =>
        /\ (IsNone(args.categories) /\ IsNone(args.date_filter_days)) =>
              /\ IsNone(filters)
              /\ \A i \in 1..2 : requests[i].filter = <<>>
        /\ ~IsNone(args.categories) =>
              \A i \in 1..2 :
                 CategoriesClauseOf(Val(args.categories)) \in Range(requests[i].filter)
        /\ ~IsNone(args.date_filter_days) =>
              \A i \in 1..2 :
                 OnOrAfterClause(Now - Val(args.date_filter_days)) \in Range(requests[i].filter)

\* C8 amended: as above, for a non-empty category list and a non-zero number of
\* days; an empty list or zero days adds no clause.
C8_Filters ==
    BothSent =>
        /\ (IsNone(args.categories) /\ IsNone(args.date_filter_days)) =>
              /\ IsNone(filters)
              /\ \A i \in 1..2 : requests[i].filter = <<>>
              /\ ~requests[2].filtered
        /\ IF TruthyList(args.categories)
           THEN /\ ClausesOn("categories") = {CategoriesClauseOf(Val(args.categories))}
                /\ \A i \in 1..2 :
                      Count(requests[i].filter, CategoriesClauseOf(Val(args.categories))) = 1
           ELSE ClausesOn("categories") = {}
        /\ IF TruthyInt(args.date_filter_days)
           THEN /\ ClausesOn("published_date") =
                      {OnOrAfterClause(Now - Val(args.date_filter_days))}
                /\ \A i \in 1..2 :
                      Count(requests[i].filter,
                            OnOrAfterClause(Now - Val(args.date_filter_days))) = 1
           ELSE ClausesOn("published_date") = {}

C8_Witness ==
    /\ BothSent
    /\ TruthyList(args.categories)
    /\ TruthyInt(args.date_filter_days)
    /\ \A i \in 1..2 : Len(requests[i].filter) = 2

ExactlyOneFails == backend.bm25.ok # backend.knn.ok
BothFail == ~backend.bm25.ok /\ ~backend.knn.ok

\* C9: when exactly one of the two sub-queries fails, the retrieval is not
\* aborted by that failure: fusion runs on the surviving list.
C9_PartialFailure ==
    ExactlyOneFails =>
        ~(pc = "raised" /\ output.status = "raised" /\ output.error \in {"bm25", "knn"})

\* C10: when both sub-queries fail, retrieve ends in a failure raised to the
\* caller; no context and no citations are returned.
C10_TotalFailure ==
    BothFail =>
        /\ output.status # "returned"
        /\ output.context = <<>> /\ output.sources = <<>>
        /\ pc \in {"retrieve", "embed", "filters", "hybrid_search", "raised"}
        /\ calls.bm25 >= 1 => (pc = "raised" /\ output.status = "raised")

C10_Witness ==
    /\ BothFail
    /\ pc = "raised"
    /\ output.status = "raised"
    /\ output.error = "bm25"

\* C11: when the embedding call for the query fails, no vector query is issued
\* (the query vector would be a substitute) and retrieve returns no result.
C11_EmbeddingFailure ==
    provider = "error" =>
        /\ ~(calls.knn > 0 /\ query_embedding = ZeroVector)
        /\ output.status # "returned"

\* the relevance model was called and raised
ModelRaised == ~IsNone(model) /\ ~Val(model).ok

\* C12: when the relevance-model call raises on a non-empty candidate list,
\* retrieve does not fail.
C12_ModelFailure ==
    (ModelRaised /\ results # <<>>) => output.status # "raised"

\* the blocks of the returned context are all the candidates handed to build,
\* or the candidate after the last block does not fit in what is left of the
\* budget
RECURSIVE TextTokens(_, _)
TextTokens(blocks, m) ==
    IF m = 0 THEN 0
    ELSE TextTokens(blocks, m - 1) + ContentTokens(blocks[m].chunk_id)

Complete(out) ==
    LET m == Len(out.context)
    IN  \/ m = Len(reranked)
        \/ TextTokens(out.context, m) + ContentTokens(reranked[m + 1].chunk_id)
               > context_budget

\* C14: a retrieve invocation that has ended has either returned a context
\* and citations produced by a finished assembly, or raised one failure and
\* handed over no context at all; an invocation that has not ended can go on.
C14_CompleteOrFailure ==
    /\ output.status \in {"none", "returned", "raised"}
    /\ output.status = "none" <=> pc \notin {"done", "raised"}
    /\ pc \notin {"done", "raised"} => ENABLED Next
    /\ output.status = "raised" =>
        /\ pc = "raised"
        /\ output.error # ""
        /\ output.context = <<>> /\ output.sources = <<>>
    /\ output.status = "returned" =>
        /\ pc = "done"
        /\ output.error = ""
        /\ Len(output.sources) = Len(output.context)
        /\ Complete(output)

C14_Witness ==
    /\ pc = "done"
    /\ caller = "retrieve"
    /\ output.status = "returned"
    /\ Len(reranked) = 2
    /\ Len(output.context) = 1

-----------------------------------------------------------------------------
(* Properties of ReRanker.rerank and ContextBuilder.build, checked under   *)
(* SpecRerank                                                              *)

Malformed == \E i \in 1..Len(results) : ~HasContent(results[i].chunk_id)
MalformedBuild == \E i \in 1..Len(reranked) : ~HasContent(reranked[i].chunk_id)

\* C13: a candidate without content never makes rerank, build or retrieve
\* raise.
C13_MalformedDropped ==
    (Malformed \/ MalformedBuild) => output.status # "raised"

\* rerank has returned the list it computed from the model's scores
Scored ==
    /\ caller = "retrieve"
    /\ results # <<>>
    /\ ~IsNone(model) /\ Val(model).ok
    /\ pc \in {"build", "done"}

RerankedIds == {reranked[p].chunk_id : p \in 1..Len(reranked)}

\* C15: for a non-empty candidate list of length n, rerank returns exactly
\* min(top_n, n) of the candidates, each with the model's score for its own
\* pair, in non-increasing order of that score, and no candidate left out has
\* a strictly higher score than a returned one.
C15_TopNByModelScore ==
    Scored =>
        /\ Len(reranked) = Min(top_n, Len(results))
        /\ Cardinality(RerankedIds) = Len(reranked)
        /\ \A p \in 1..Len(reranked) :
            /\ \E i \in 1..Len(results) :
                /\ results[i].chunk_id = reranked[p].chunk_id
                /\ results[i].score = reranked[p].score
            /\ reranked[p].rerank_score = Val(model).score[reranked[p].chunk_id]
        /\ \A p \in 1..(Len(reranked) - 1) :
            reranked[p].rerank_score >= reranked[p + 1].rerank_score
        /\ \A i \in 1..Len(results), p \in 1..Len(reranked) :
            results[i].chunk_id \notin RerankedIds =>
                Val(model).score[results[i].chunk_id] <= reranked[p].rerank_score

\* 10 candidates, top_n = 5, scores that are not in fusion order
C15_Witness ==
    /\ Scored
    /\ Len(results) = 10
    /\ top_n = 5
    /\ Len(reranked) = 5
    /\ reranked[1].chunk_id = 2 /\ reranked[1].rerank_score = 6
    /\ reranked[2].chunk_id = 9 /\ reranked[2].rerank_score = 6
    /\ reranked[5].chunk_id = 1 /\ reranked[5].rerank_score = 3

\* C16: for an empty candidate list rerank returns the empty list and the
\* relevance model is never invoked.
C16_EmptyCandidates ==
    (caller = "retrieve" /\ results = <<>> /\ pc # "rerank") =>
        /\ reranked = <<>>
        /\ calls.model = 0
        /\ IsNone(model)

C16_Witness ==
    /\ caller = "retrieve"
    /\ results = <<>>
    /\ pc = "build"
    /\ reranked = <<>>
    /\ calls.model = 0

\* build has returned
Built == pc = "done" /\ output.status = "returned"

\* C17: the candidates rendered by build are a prefix of its input list:
\* rendering stops at the first candidate that does not fit and no later
\* candidate is rendered.  With a budget of 50 and three candidates of 20
\* tokens the first two are rendered and 2 citations returned.
C17_Prefix ==
    Built =>
        /\ Len(output.context) <= Len(reranked)
        /\ \A j \in 1..Len(output.context) :
            output.context[j].chunk_id = reranked[j].chunk_id
        /\ Complete(output)
        /\ (/\ context_budget = 50
            /\ Len(reranked) = 3
            /\ \A i \in 1..3 : ContentTokens(reranked[i].chunk_id) = 20)
           => (Len(output.context) = 2 /\ Len(output.sources) = 2)

C17_Witness ==
    /\ Built
    /\ context_budget = 50
    /\ Len(reranked) = 3
    /\ \A i \in 1..3 : ContentTokens(reranked[i].chunk_id) = 20
    /\ Len(output.context) = 2
    /\ Len(output.sources) = 2

\* C18 as stated: the token count of the assembled context never exceeds
\* max_context_tokens.
C18_AsStated ==
    Built => RenderedTokens(output.context) <= context_budget

\* C18: the whitespace-token counts of the texts of the rendered candidates
\* add up to at most max_context_tokens (equality allowed).
C18_TextBudget ==
    Built => TextTokens(output.context, Len(output.context)) <= context_budget

C18_Witness ==
    /\ Built
    /\ Len(reranked) > 2
    /\ Len(output.context) = 2
    /\ TextTokens(output.context, 2) = context_budget

\* C19: build returns as many citations as rendered blocks (none of either
\* for the empty list); the block at position j carries the marker
\* "[Source j]" and the citation at position j describes that block.
C19_Parity ==
    Built =>
        /\ Len(output.sources) = Len(output.context)
        /\ reranked = <<>> => (output.context = <<>> /\ output.sources = <<>>)
        /\ \A j \in 1..Len(output.context) :
            /\ output.context[j].marker = j
            /\ output.sources[j].chunk_id = output.context[j].chunk_id

C19_Witness ==
    /\ Built
    /\ Len(reranked) = 5
    /\ Len(output.context) = 3
    /\ Len(output.sources) = 3
    /\ output.context[3].marker = 3
    /\ output.sources[3].chunk_id = output.context[3].chunk_id

\* C20: in the result of retrieve each citation's relevance score is the
\* model-derived score of the reranked candidate it describes, rounded to 4
\* decimals (here in ten-thousandths), so the citations are in non-increasing
\* order of relevance score.
C20_CitationScore ==
    (Built /\ Scored) =>
        /\ \A j \in 1..Len(output.sources) :
            output.sources[j].relevance_score = 10000 * reranked[j].rerank_score
        /\ \A j \in 1..(Len(output.sources) - 1) :
            output.sources[j].relevance_score >= output.sources[j + 1].relevance_score

-----------------------------------------------------------------------------
(* Properties of EmbeddingGenerator.embed_text, checked under SpecEmbed *)

\* embed_text has returned to a direct caller
Embedded == pc = "done" /\ caller = "embed_text"

OnlyWhitespace(text) == \A i \in 1..Len(text) : text[i] \in {" ", "\n"}

\* C21: embed_text never raises; for an empty or whitespace-only text it
\* returns a zero vector of the configured dimension without calling the
\* provider, and when the provider call fails it returns such a vector too.
C21_ZeroVector ==
    /\ caller = "embed_text" => (pc # "raised" /\ output.status # "raised")
    /\ Embedded =>
        /\ OnlyWhitespace(args.query) =>
            /\ Len(query_embedding) = OPENSEARCH_EMBEDDING_DIM
            /\ \A i \in 1..Len(query_embedding) : query_embedding[i] = 0
            /\ calls.embed = 0
            /\ provider = "unasked"
        /\ provider = "error" =>
            /\ Len(query_embedding) = OPENSEARCH_EMBEDDING_DIM
            /\ \A i \in 1..Len(query_embedding) : query_embedding[i] = 0
            /\ calls.embed = 1

C21_Witness ==
    /\ Embedded
    /\ args.query = <<" ", "\n">>
    /\ query_embedding = ZeroVector
    /\ calls.embed = 0

-----------------------------------------------------------------------------
(* Tie-breaks of the fusion, checked under SpecFusion *)

\* position at which a fragment is first seen when the keyword list is
\* scanned first and the vector list after it
FirstSeen(x) ==
    IF x \in Range(bm25_hits) THEN RankIn(bm25_hits, x)
    ELSE Len(bm25_hits) + RankIn(knn_hits, x)

Tied(i, j) == RatEq(results[i].score, results[j].score)

\* C22: of two returned fragments with equal fused score, one present in both
\* hit lists and one present in a single list, the one present in both lists
\* comes first.
C22_BothListsFirst ==
    Fused =>
        \A i, j \in 1..Len(results) :
            (/\ Tied(i, j)
             /\ ResultIds[i] \in InBoth
             /\ ResultIds[j] \notin InBoth) => i < j

\* C23: of two returned fragments with equal fused score and equal list
\* membership, the one first seen comes first, the keyword list being scanned
\* before the vector list.
C23_FirstSeen ==
    Fused =>
        \A i, j \in 1..Len(results) :
            (/\ i # j
             /\ Tied(i, j)
             /\ (ResultIds[i] \in InBoth <=> ResultIds[j] \in InBoth)
             /\ FirstSeen(ResultIds[i]) < FirstSeen(ResultIds[j])) => i < j

\* a keyword-only hit and a vector-only hit at the same rank 1, in that order
C23_Witness ==
    /\ Fused
    /\ \E i \in 1..(Len(results) - 1) :
        /\ Tied(i, i + 1)
        /\ ResultIds[i] \in Range(bm25_hits) \ Range(knn_hits)
        /\ ResultIds[i + 1] \in Range(knn_hits) \ Range(bm25_hits)
        /\ RankIn(bm25_hits, ResultIds[i]) = 1
        /\ RankIn(knn_hits, ResultIds[i + 1]) = 1

-----------------------------------------------------------------------------
(* Calls made by one retrieve invocation, checked under Spec *)

\* C24: in one invocation of retrieve the embedding provider, the keyword
\* query, the vector query and the relevance model are each called at most
\* once, whatever the calls answer; a failed call is not issued again.
C24_NoRetry ==
    /\ calls.embed <= 1
    /\ calls.bm25 <= 1
    /\ calls.knn <= 1
    /\ calls.model <= 1
    /\ Len(requests) = calls.bm25 + calls.knn
    /\ provider = "error" => calls.embed = 1
    /\ pc = "raised" =>
        \/ output.error = "bm25" /\ calls.bm25 = 1 /\ calls.knn = 0 /\ calls.model = 0
        \/ output.error = "knn" /\ calls.bm25 = 1 /\ calls.knn = 1 /\ calls.model = 0
        \/ output.error = "model" /\ calls.bm25 = 1 /\ calls.knn = 1 /\ calls.model = 1

C24_Witness ==
    /\ pc = "raised"
    /\ provider = "error"
    /\ output.error = "knn"
    /\ calls = [embed |-> 1, bm25 |-> 1, knn |-> 1, model |-> 0]

\* the keyword query and the vector query have both been issued and answered
BothAnswered ==
    /\ calls.bm25 = 1 /\ calls.knn = 1
    /\ Len(requests) = 2
    /\ backend.bm25.ok /\ backend.knn.ok
    /\ bm25_hits = backend.bm25.hits /\ knn_hits = backend.knn.hits

\* fusion has produced its list from all the hits
FusionDone ==
    /\ BothAnswered
    /\ Range(scores.keys) = InEither
    /\ Len(ranked_all) = Cardinality(InEither)
    /\ results = ResultList(Slice(ranked_all, top_k), scores)

\* rerank has returned
RerankDone ==
    /\ FusionDone
    /\ \/ results = <<>> /\ reranked = <<>> /\ calls.model = 0
       \/ /\ calls.model = 1 /\ Val(model).ok
          /\ Len(reranked) = Min(top_n, Len(results))

\* C25: within one invocation the vector query is issued only after the query
\* embedding has been obtained; fusion starts only after both queries have
\* been answered; re-ranking starts only after fusion has produced its list,
\* and context assembly only after re-ranking.
C25_Order ==
    [][/\ calls'.knn > calls.knn => query_embedding # NoneV
       /\ (scores' # scores \/ ranked_all' # ranked_all) => BothAnswered
       /\ (calls'.model > calls.model \/ reranked' # reranked) => FusionDone
       /\ output'.status = "returned" => RerankDone]_vars

C25_Witness ==
    /\ pc = "done"
    /\ caller = "retrieve"
    /\ calls = [embed |-> 1, bm25 |-> 1, knn |-> 1, model |-> 1]
    /\ Len(bm25_hits) = 2 /\ Len(knn_hits) = 2
    /\ Len(reranked) = 2
    /\ output.status = "returned"

\* C26: in every invocation of retrieve the relevance model is given at most
\* top_k pairs, top_k being the one used for the fusion, however many
\* fragments the queries found, and every fused candidate is in exactly one
\* pair.
C26_BoundedRerank ==
    (caller = "retrieve" /\ ~IsNone(model)) =>
        /\ calls.model = 1
        /\ Len(Val(model).pairs) <= top_k
        /\ Len(Val(model).pairs) = Len(results)
        /\ \A i \in 1..Len(results) : Count(Val(model).pairs, results[i].chunk_id) = 1

\* two fragments found, top_k = 1: one pair
C26_Witness ==
    /\ caller = "retrieve"
    /\ ~IsNone(model)
    /\ top_k = 1
    /\ Cardinality(InEither) = 2
    /\ Len(Val(model).pairs) = 1

\* the record r with the field rerank_score taken away is the record c
AddsRerankScore(r, c) ==
    /\ DOMAIN r = DOMAIN c \cup {"rerank_score"}
    /\ \A f \in DOMAIN c : r[f] = c[f]

\* C27: fusion and re-ranking leave their inputs as they were: the hit lists
\* and the stored fragments through the fusion, the candidate list through
\* rerank; the fused records hold the fragment's id and the fused score, the
\* reranked records are the candidates' fields plus the rerank score.
C27_InputsUnchanged ==
    [][/\ pc \in {"rrf_bm25", "rrf_knn", "rank"} =>
            /\ bm25_hits' = bm25_hits /\ knn_hits' = knn_hits
            /\ backend' = backend /\ store' = store
       /\ pc = "rank" =>
            \A p \in 1..Len(results') :
                /\ DOMAIN results'[p] = {"chunk_id", "score"}
                /\ results'[p].chunk_id \in InEither
       /\ pc = "rerank" =>
            /\ results' = results /\ store' = store
            /\ \A p \in 1..Len(reranked') :
                \E i \in 1..Len(results) : AddsRerankScore(reranked'[p], results[i])]_vars

\* rerank has returned a list in another order than the one it was given
C27_Witness ==
    /\ pc = "build"
    /\ caller = "retrieve"
    /\ Len(results) = 2
    /\ Len(reranked) = 2
    /\ reranked[1].chunk_id = results[2].chunk_id
    /\ RatLt(results[2].score, results[1].score)

-----------------------------------------------------------------------------
(* Two concurrent retrieve invocations, checked under SpecConcurrent *)

RECURSIVE RrfFold(_, _, _)
RrfFold(d, hits, r) ==
    IF r >= Len(hits) THEN d ELSE RrfFold(RrfStep(d, hits[r + 1], r), hits, r + 1)

\* what the invocation with the locals f returns when it runs alone on a
\* pipeline as constructed: the fusion of its two hit lists, re-ranked with
\* the scores its model call got, assembled
AloneOutput(f) ==
    LET k == EffectiveTopK(f.args)
        d == RrfFold(RrfFold(EmptyDict, f.backend.bm25.hits, 0), f.backend.knn.hits, 0)
        fused == ResultList(Slice(SortedByScoreDesc(d), k), d)
        ranked == IF fused = <<>> THEN <<>>
                  ELSE RerankList(fused, Val(f.model).score, TOP_K_RERANK)
    IN  [status |-> "returned", error |-> "",
         context |-> ContextParts(ranked, max_context_tokens),
         sources |-> Sources(ranked, max_context_tokens)]

\* what an invocation that has ended hands to its caller is what it hands
\* over when run alone with the same answers to its calls
AsAlone(f) ==
    /\ f.pc = "done" => f.output = AloneOutput(f)
    /\ f.pc = "raised" =>
        /\ f.output.status = "raised"
        /\ \/ ~f.backend.bm25.ok
           \/ ~f.backend.knn.ok
           \/ ~IsNone(f.model) /\ ~Val(f.model).ok

\* C28: retrieve changes no field of the pipeline, the search engine, the
\* re-ranker or the context builder, and whatever the interleaving of two
\* concurrent invocations each returns the context and citations it returns
\* when run alone on the same answers of the backend, provider and model.
C28_Stateless ==
    /\ store = [i \in 1..PipeFrags |-> Fragment(20, 2)]
    /\ top_n = TOP_K_RERANK
    /\ context_budget = max_context_tokens
    /\ AsAlone(Frame)
    /\ ~IsNone(other) => AsAlone(Val(other))

\* both invocations have ended, each with the result of its own call: two
\* blocks for the one with top_k = 2, one block for the other
C28_Witness ==
    /\ ~IsNone(other)
    /\ pc = "done"
    /\ Val(other).pc = "done"
    /\ args.top_k # Val(other).args.top_k
    /\ Len(output.context) = 2
    /\ Len(Val(other).output.context) = 1
    /\ output.sources[1].chunk_id = 2

-----------------------------------------------------------------------------
(* Further properties of ContextBuilder.build, checked under SpecRerank *)

\* the first candidate handed to build has a text, of more tokens than the
\* budget
FirstTooBig ==
    /\ reranked # <<>>
    /\ HasContent(reranked[1].chunk_id)
    /\ ContentTokens(reranked[1].chunk_id) > context_budget

\* C29: when the first candidate alone costs more tokens than
\* max_context_tokens, build returns the empty context and no citation,
\* whether or not later candidates would fit, and retrieve returns that
\* without raising.
C29_FirstTooBig ==
    (FirstTooBig /\ pc \notin {"rerank", "build"}) =>
        /\ pc = "done"
        /\ output.status = "returned"
        /\ output.context = <<>>
        /\ output.sources = <<>>

\* a first candidate of 60 tokens and a second of 10, budget 50
C29_Witness ==
    /\ FirstTooBig
    /\ caller = "retrieve"
    /\ pc = "done"
    /\ context_budget = 50
    /\ Len(reranked) >= 2
    /\ ContentTokens(reranked[2].chunk_id) = 10
    /\ output.context = <<>>
    /\ output.sources = <<>>

-----------------------------------------------------------------------------
(* Falsy arguments of retrieve, checked under Spec *)

ZeroDays == args.date_filter_days = Some(0)
NoCategories == args.categories = Some(<<>>)
NoTopK == args.top_k \in {NoneV, Some(0)}

\* C30: date_filter_days = 0 adds no date clause and an empty categories list
\* adds no category clause, so with nothing else given both queries run
\* unfiltered; top_k = 0 or None makes retrieve ask for TOP_K_RETRIEVAL
\* candidates.
C30_FalsyArguments ==
    /\ (pc # "retrieve" /\ caller = "retrieve" /\ NoTopK) => top_k = TOP_K_RETRIEVAL
    /\ \A i \in 1..Len(requests) :
        /\ NoTopK => requests[i].size = TOP_K_RETRIEVAL
        /\ ZeroDays => ClausesOn("published_date") = {}
        /\ NoCategories => ClausesOn("categories") = {}
        /\ ((ZeroDays \/ IsNone(args.date_filter_days))
             /\ (NoCategories \/ IsNone(args.categories))) =>
                /\ requests[i].filter = <<>>
                /\ requests[i].query = "knn" => ~requests[i].filtered
                /\ IsNone(filters)

C30_Witness ==
    /\ BothSent
    /\ args.top_k = Some(0)
    /\ ZeroDays
    /\ NoCategories
    /\ requests[1].size = 10 /\ requests[2].size = 10
    /\ requests[1].filter = <<>> /\ requests[2].filter = <<>>

====
